---- MODULE Spec2Model ----
(***************************************************************************)
(* A model of docs/frontend.js: the canvas front end that asks the wasm    *)
(* logic layer for a list of paint commands on every pointer event and     *)
(* interprets them against a 2D canvas context.                            *)
(***************************************************************************)
EXTENDS Integers, Sequences, FiniteSets, TLC

(***************************************************************************)
(* JavaScript values.  Every value carries its type tag, and every tag has *)
(* its own payload field.  A string is a sequence of characters; a run of  *)
(* characters that JSON never escapes ("mouse_pos", "#111111") is kept as  *)
(* one unit, the quote and the backslash are units of their own.  An       *)
(* object is the sequence of its <<key, value>> members in insertion       *)
(* order, which is the order JSON.stringify writes and JSON.parse keeps.   *)
(***************************************************************************)
Num(n) == [t |-> "number", n |-> n]
Str(s) == [t |-> "string", s |-> s]
Obj(m) == [t |-> "object", m |-> m]
Arr(a) == [t |-> "array", a |-> a]
Undefined == [t |-> "undefined"]
False == [t |-> "boolean", b |-> FALSE]
\* 2 * Math.PI, kept symbolic: the number k*pi
TwoPi == [t |-> "number", pi |-> 2]

\* a string literal of the source: one run of plain characters
Lit(run) == Str(<<run>>)
\* an object literal {x: a, y: b}
Point(a, b) == Obj(<< <<(<<"x">>), Num(a)>>, <<(<<"y">>), Num(b)>> >>)

\* o.k : the value of the own property k, undefined when there is none
GetKey(o, key) ==
    IF o.t = "object" /\ \E i \in DOMAIN o.m : o.m[i][1] = key
    THEN o.m[CHOOSE i \in DOMAIN o.m : o.m[i][1] = key][2]
    ELSE Undefined

\* o.k for a name k written in the source
Get(o, k) == GetKey(o, <<k>>)

(***************************************************************************)
(* JSON text is a sequence of the same units: punctuation, digits, the     *)
(* minus sign, the quote, the backslash, and plain runs inside strings.    *)
(***************************************************************************)
Quote == "\""
Backslash == "\\"
Digit == <<"0", "1", "2", "3", "4", "5", "6", "7", "8", "9">>
IsDigit(c) == \E d \in DOMAIN Digit : Digit[d] = c
DigitValue(c) == (CHOOSE d \in DOMAIN Digit : Digit[d] = c) - 1

RECURSIVE DecimalDigits(_)
DecimalDigits(n) ==
    IF n < 10 THEN <<Digit[n + 1]>>
    ELSE DecimalDigits(n \div 10) \o <<Digit[(n % 10) + 1]>>

\* Number::toString of an integer
NumberToString(n) ==
    IF n < 0 THEN <<"-">> \o DecimalDigits(-n) ELSE DecimalDigits(n)

RECURSIVE EscapeChars(_)
EscapeChars(s) ==
    IF s = <<>> THEN <<>>
    ELSE (IF Head(s) \in {Quote, Backslash} THEN <<Backslash, Head(s)>>
          ELSE <<Head(s)>>) \o EscapeChars(Tail(s))

\* QuoteJSONString
QuoteJSONString(s) == <<Quote>> \o EscapeChars(s) \o <<Quote>>

RECURSIVE JSONstringify(_), SerializeElements(_, _), SerializeMembers(_, _)
SerializeElements(a, i) ==
    IF i > Len(a) THEN <<>>
    ELSE (IF i > 1 THEN <<",">> ELSE <<>>) \o JSONstringify(a[i])
         \o SerializeElements(a, i + 1)

SerializeMembers(m, i) ==
    IF i > Len(m) THEN <<>>
    ELSE (IF i > 1 THEN <<",">> ELSE <<>>) \o QuoteJSONString(m[i][1])
         \o <<":">> \o JSONstringify(m[i][2]) \o SerializeMembers(m, i + 1)

JSONstringify(v) ==
    CASE v.t = "number" -> NumberToString(v.n)
      [] v.t = "string" -> QuoteJSONString(v.s)
      [] v.t = "array" -> <<"[">> \o SerializeElements(v.a, 1) \o <<"]">>
      [] v.t = "object" -> <<"{">> \o SerializeMembers(v.m, 1) \o <<"}">>

(***************************************************************************)
(* JSON.parse: recursive descent over the text from position i.  A result  *)
(* is [ok |-> TRUE, v |-> value, i |-> next position] or SyntaxError.      *)
(***************************************************************************)
SyntaxError == [ok |-> FALSE]
Parsed(v, i) == [ok |-> TRUE, v |-> v, i |-> i]
At(s, i, c) == i <= Len(s) /\ s[i] = c

RECURSIVE ParseDigits(_, _, _)
ParseDigits(s, i, acc) ==
    IF i <= Len(s) /\ IsDigit(s[i])
    THEN ParseDigits(s, i + 1, acc * 10 + DigitValue(s[i]))
    ELSE Parsed(acc, i)

ParseNumber(s, i) ==
    LET j == IF At(s, i, "-") THEN i + 1 ELSE i
    IN  IF j <= Len(s) /\ IsDigit(s[j])
        THEN LET d == ParseDigits(s, j, 0)
             IN  Parsed(Num(IF j > i THEN 0 - d.v ELSE d.v), d.i)
        ELSE SyntaxError

\* the characters of a string, from just after its opening quote
RECURSIVE ParseChars(_, _, _)
ParseChars(s, i, acc) ==
    IF i > Len(s) THEN SyntaxError
    ELSE IF s[i] = Quote THEN Parsed(acc, i + 1)
    ELSE IF s[i] = Backslash
         THEN IF i + 1 <= Len(s) /\ s[i + 1] \in {Quote, Backslash}
              THEN ParseChars(s, i + 2, Append(acc, s[i + 1]))
              ELSE SyntaxError
    ELSE ParseChars(s, i + 1, Append(acc, s[i]))

RECURSIVE ParseValue(_, _), ParseElements(_, _, _), ParseMembers(_, _, _)
ParseElements(s, i, acc) ==
    LET e == ParseValue(s, i)
    IN  IF ~e.ok THEN SyntaxError
        ELSE IF At(s, e.i, ",") THEN ParseElements(s, e.i + 1, Append(acc, e.v))
        ELSE IF At(s, e.i, "]") THEN Parsed(Arr(Append(acc, e.v)), e.i + 1)
        ELSE SyntaxError

ParseMembers(s, i, acc) ==
    IF ~At(s, i, Quote) THEN SyntaxError
    ELSE LET k == ParseChars(s, i + 1, <<>>)
         IN  IF ~k.ok \/ ~At(s, k.i, ":") THEN SyntaxError
             ELSE LET e == ParseValue(s, k.i + 1)
                      m == Append(acc, <<k.v, e.v>>)
                  IN  IF ~e.ok THEN SyntaxError
                      ELSE IF At(s, e.i, ",") THEN ParseMembers(s, e.i + 1, m)
                      ELSE IF At(s, e.i, "}") THEN Parsed(Obj(m), e.i + 1)
                      ELSE SyntaxError

ParseValue(s, i) ==
    IF i > Len(s) THEN SyntaxError
    ELSE IF s[i] = "{"
         THEN IF At(s, i + 1, "}") THEN Parsed(Obj(<<>>), i + 2)
              ELSE ParseMembers(s, i + 1, <<>>)
    ELSE IF s[i] = "["
         THEN IF At(s, i + 1, "]") THEN Parsed(Arr(<<>>), i + 2)
              ELSE ParseElements(s, i + 1, <<>>)
    ELSE IF s[i] = Quote
         THEN LET c == ParseChars(s, i + 1, <<>>)
              IN  IF c.ok THEN Parsed(Str(c.v), c.i) ELSE SyntaxError
    ELSE ParseNumber(s, i)

\* JSON.parse(text): the whole text is one value, or the call throws
WholeText(s, r) ==
    IF r.ok /\ r.i = Len(s) + 1 THEN [ok |-> TRUE, v |-> r.v] ELSE SyntaxError

JSONparse(s) == WholeText(s, ParseValue(s, 1))

(***************************************************************************)
(* The canvas context.  A surface operation is a property assignment or a  *)
(* method call of the CanvasRenderingContext2D, with its arguments.        *)
(***************************************************************************)
SetProp(p, v) == [op |-> "set", prop |-> p, value |-> v]
Call(name, args) == [op |-> name, args |-> args]
\* a direct return, and an exception leaving the function
Returned(ops) == [ops |-> ops, threw |-> FALSE]
Thrown(ops) == [ops |-> ops, threw |-> TRUE]

\* a + b and a - b on numbers
Plus(a, b) == Num(a.n + b.n)
Minus(a, b) == Num(a.n - b.n)

\* case "clear"
paintClear(canvas, cmd) ==
    <<SetProp("fillStyle", Get(cmd, "fill_style")),
      Call("clearRect", <<Num(0), Num(0), Num(canvas.width), Num(canvas.height)>>)>>

\* case "line" without its ctx.beginPath()
paintLineKeepsPath(cmd) ==
    <<SetProp("lineWidth", Get(cmd, "line_width")),
      SetProp("strokeStyle", Get(cmd, "stroke_style")),
      Call("moveTo", <<Get(Get(cmd, "from"), "x"), Get(Get(cmd, "from"), "y")>>),
      Call("lineTo", <<Get(Get(cmd, "to"), "x"), Get(Get(cmd, "to"), "y")>>),
      Call("stroke", <<>>)>>

\* case "line"
paintLine(cmd) ==
    <<Call("beginPath", <<>>),
      SetProp("lineWidth", Get(cmd, "line_width")),
      SetProp("strokeStyle", Get(cmd, "stroke_style")),
      Call("moveTo", <<Get(Get(cmd, "from"), "x"), Get(Get(cmd, "from"), "y")>>),
      Call("lineTo", <<Get(Get(cmd, "to"), "x"), Get(Get(cmd, "to"), "y")>>),
      Call("stroke", <<>>)>>

\* case "circle"
paintCircle(cmd) ==
    <<SetProp("fillStyle", Get(cmd, "fill_style")),
      Call("beginPath", <<>>),
      Call("arc", <<Get(Get(cmd, "center"), "x"), Get(Get(cmd, "center"), "y"),
                    Get(cmd, "radius"), Num(0), TwoPi, False>>),
      Call("fill", <<>>)>>

\* case "rounded_rect" with the bottom-left curve ending where the top-left
\* curve starts, at (x, y + r)
paintRoundedRectCutsCorner(cmd) ==
    LET x == Get(Get(cmd, "pos"), "x")
        y == Get(Get(cmd, "pos"), "y")
        width == Get(Get(cmd, "size"), "x")
        height == Get(Get(cmd, "size"), "y")
        r == Get(cmd, "corner_radius")
    IN  <<SetProp("fillStyle", Get(cmd, "fill_style")),
          Call("beginPath", <<>>),
          Call("moveTo", <<Plus(x, r), y>>),
          Call("lineTo", <<Minus(Plus(x, width), r), y>>),
          Call("quadraticCurveTo", <<Plus(x, width), y, Plus(x, width), Plus(y, r)>>),
          Call("lineTo", <<Plus(x, width), Minus(Plus(y, height), r)>>),
          Call("quadraticCurveTo", <<Plus(x, width), Plus(y, height),
                                     Minus(Plus(x, width), r), Plus(y, height)>>),
          Call("lineTo", <<Plus(x, r), Plus(y, height)>>),
          Call("quadraticCurveTo", <<x, Plus(y, height), x, Plus(y, r)>>),
          Call("lineTo", <<x, Plus(y, r)>>),
          Call("quadraticCurveTo", <<x, y, Plus(x, r), y>>),
          Call("closePath", <<>>),
          Call("fill", <<>>)>>

\* case "rounded_rect" with the top edge drawn to x + width + r
paintRoundedRectOvershoots(cmd) ==
    LET x == Get(Get(cmd, "pos"), "x")
        y == Get(Get(cmd, "pos"), "y")
        width == Get(Get(cmd, "size"), "x")
        height == Get(Get(cmd, "size"), "y")
        r == Get(cmd, "corner_radius")
    IN  <<SetProp("fillStyle", Get(cmd, "fill_style")),
          Call("beginPath", <<>>),
          Call("moveTo", <<Plus(x, r), y>>),
          Call("lineTo", <<Plus(Plus(x, width), r), y>>),
          Call("quadraticCurveTo", <<Plus(x, width), y, Plus(x, width), Plus(y, r)>>),
          Call("lineTo", <<Plus(x, width), Minus(Plus(y, height), r)>>),
          Call("quadraticCurveTo", <<Plus(x, width), Plus(y, height),
                                     Minus(Plus(x, width), r), Plus(y, height)>>),
          Call("lineTo", <<Plus(x, r), Plus(y, height)>>),
          Call("quadraticCurveTo", <<x, Plus(y, height),
                                     x, Minus(Plus(y, height), r)>>),
          Call("lineTo", <<x, Plus(y, r)>>),
          Call("quadraticCurveTo", <<x, y, Plus(x, r), y>>),
          Call("closePath", <<>>),
          Call("fill", <<>>)>>

\* case "rounded_rect" with the top-right corner as the control point of the
\* bottom-right curve too
paintRoundedRectRepeatsControl(cmd) ==
    LET x == Get(Get(cmd, "pos"), "x")
        y == Get(Get(cmd, "pos"), "y")
        width == Get(Get(cmd, "size"), "x")
        height == Get(Get(cmd, "size"), "y")
        r == Get(cmd, "corner_radius")
    IN  <<SetProp("fillStyle", Get(cmd, "fill_style")),
          Call("beginPath", <<>>),
          Call("moveTo", <<Plus(x, r), y>>),
          Call("lineTo", <<Minus(Plus(x, width), r), y>>),
          Call("quadraticCurveTo", <<Plus(x, width), y, Plus(x, width), Plus(y, r)>>),
          Call("lineTo", <<Plus(x, width), Minus(Plus(y, height), r)>>),
          Call("quadraticCurveTo", <<Plus(x, width), y,
                                     Minus(Plus(x, width), r), Plus(y, height)>>),
          Call("lineTo", <<Plus(x, r), Plus(y, height)>>),
          Call("quadraticCurveTo", <<x, Plus(y, height),
                                     x, Minus(Plus(y, height), r)>>),
          Call("lineTo", <<x, Plus(y, r)>>),
          Call("quadraticCurveTo", <<x, y, Plus(x, r), y>>),
          Call("closePath", <<>>),
          Call("fill", <<>>)>>

\* case "rounded_rect"
paintRoundedRect(cmd) ==
    LET x == Get(Get(cmd, "pos"), "x")
        y == Get(Get(cmd, "pos"), "y")
        width == Get(Get(cmd, "size"), "x")
        height == Get(Get(cmd, "size"), "y")
        r == Get(cmd, "corner_radius")
    IN  <<SetProp("fillStyle", Get(cmd, "fill_style")),
          Call("beginPath", <<>>),
          Call("moveTo", <<Plus(x, r), y>>),
          Call("lineTo", <<Minus(Plus(x, width), r), y>>),
          Call("quadraticCurveTo", <<Plus(x, width), y, Plus(x, width), Plus(y, r)>>),
          Call("lineTo", <<Plus(x, width), Minus(Plus(y, height), r)>>),
          Call("quadraticCurveTo", <<Plus(x, width), Plus(y, height),
                                     Minus(Plus(x, width), r), Plus(y, height)>>),
          Call("lineTo", <<Plus(x, r), Plus(y, height)>>),
          Call("quadraticCurveTo", <<x, Plus(y, height),
                                     x, Minus(Plus(y, height), r)>>),
          Call("lineTo", <<x, Plus(y, r)>>),
          Call("quadraticCurveTo", <<x, y, Plus(x, r), y>>),
          Call("closePath", <<>>),
          Call("fill", <<>>)>>

\* case "text"
paintText(cmd) ==
    <<SetProp("font", Get(cmd, "font")),
      SetProp("fillStyle", Get(cmd, "fill_style")),
      SetProp("textAlign", Get(cmd, "text_align")),
      Call("fillText", <<Get(cmd, "text"), Get(Get(cmd, "pos"), "x"),
                         Get(Get(cmd, "pos"), "y")>>)>>

\* paintCommand with a default case that throws
paintCommandDefaultThrows(canvas, cmd) ==
    LET kind == Get(cmd, "kind")
    IN  CASE kind = Lit("clear") -> Returned(paintClear(canvas, cmd))
          [] kind = Lit("line") -> Returned(paintLine(cmd))
          [] kind = Lit("circle") -> Returned(paintCircle(cmd))
          [] kind = Lit("rounded_rect") -> Returned(paintRoundedRect(cmd))
          [] kind = Lit("text") -> Returned(paintText(cmd))
          [] OTHER -> Thrown(<<>>)

\* function paintCommand(canvas, cmd): the operations issued on the context;
\* a kind that matches no case falls out of the switch
paintCommand(canvas, cmd) ==
    LET kind == Get(cmd, "kind")
    IN  CASE kind = Lit("clear") -> Returned(paintClear(canvas, cmd))
          [] kind = Lit("line") -> Returned(paintLine(cmd))
          [] kind = Lit("circle") -> Returned(paintCircle(cmd))
          [] kind = Lit("rounded_rect") -> Returned(paintRoundedRect(cmd))
          [] kind = Lit("text") -> Returned(paintText(cmd))
          [] OTHER -> Returned(<<>>)

(***************************************************************************)
(* The logic layer (wasm_bindgen.show_gui).  It is an opaque producer: a   *)
(* call either fails or answers with a list of commands.  The commands it  *)
(* can emit are drawn from Script, MaxCmds consecutive ones at a time,     *)
(* starting at the head or in the middle of Script.                        *)
(***************************************************************************)
MaxCmds == 3
MaxEvents == 2

Member(k, v) == <<(<<k>>), v>>

Script ==
    << Obj(<<Member("kind", Lit("clear")), Member("fill_style", Lit("#111111"))>>),
       Obj(<<Member("kind", Lit("rounded_rect")),
             Member("fill_style", Lit("#ff1111")),
             Member("pos", Point(100, 100)),
             Member("size", Point(200, 100)),
             Member("corner_radius", Num(20))>>),
       Obj(<<Member("kind", Lit("line")),
             Member("from", Point(-5, 10)),
             Member("to", Point(300, 40)),
             Member("line_width", Num(2)),
             Member("stroke_style", Lit("#ffffff"))>>),
       Obj(<<Member("kind", Lit("triangle")),
             Member("fill_style", Lit("#00ff00")),
             Member("points", Arr(<<Point(0, 0), Point(10, 0), Point(0, 10)>>))>>),
       Obj(<<Member("kind", Lit("circle")),
             Member("center", Point(50, 60)),
             Member("radius", Num(15)),
             Member("fill_style", Lit("#1111ff"))>>),
       Obj(<<Member("kind", Lit("text")),
             Member("pos", Point(120, 130)),
             Member("text", Str(<<"say ", Quote, "hi", Quote, " C:", Backslash>>)),
             Member("font", Lit("14px Palatino")),
             Member("fill_style", Lit("#eeeeee")),
             Member("text_align", Lit("center"))>>) >>

\* MaxCmds consecutive commands of Script, from position p on, wrapping round
Window(p) == [i \in 1..MaxCmds |-> Script[((p + i - 2) % Len(Script)) + 1]]

\* what one call of the logic layer does: fail, or produce these commands
LogicOutcomes ==
    {[fails |-> TRUE, commands |-> <<>>]}
    \cup {[fails |-> FALSE, commands |-> Window(p)] :
            p \in {1, 1 + Len(Script) \div 2}}

IsNumber(v) == v.t = "number"
IsPoint(v) == IsNumber(Get(v, "x")) /\ IsNumber(Get(v, "y"))

\* the logic layer's answer to the snapshot it has deserialized to seen
Respond(seen, logic) ==
    IF ~(seen.ok /\ IsPoint(Get(seen.v, "mouse_pos"))
                 /\ IsPoint(Get(seen.v, "screen_size")))
       \/ logic.fails
    THEN [threw |-> TRUE, seen |-> IF seen.ok THEN seen.v ELSE Undefined,
          produced |-> Undefined, text |-> <<>>]
    ELSE [threw |-> FALSE, seen |-> seen.v, produced |-> Arr(logic.commands),
          text |-> JSONstringify(Arr(logic.commands))]

\* wasm_bindgen.show_gui(text): the input snapshot is deserialized, the
\* commands are produced and serialized.  seen is the snapshot as the logic
\* layer reads it, produced the commands as it made them.
show_gui(text, logic) == Respond(JSONparse(text), logic)

\* JSON.parse(...) of what the call show_gui(...) returned
ParseReply(call, parsed) ==
    [threw |-> call.threw \/ ~parsed.ok,
     value |-> IF ~call.threw /\ parsed.ok THEN parsed.v ELSE Undefined,
     seen |-> call.seen,
     produced |-> call.produced]

ParseCall(call) == ParseReply(call, JSONparse(call.text))

\* rust_gui sending the pointer position alone
rust_guiSendsMousePos(input, logic) ==
    ParseCall(show_gui(JSONstringify(Obj(<<Member("mouse_pos",
                                                  Get(input, "mouse_pos"))>>)),
                       logic))

\* function rust_gui(input)
rust_gui(input, logic) == ParseCall(show_gui(JSONstringify(input), logic))

\* the indexed elements 1..length of a value; a value without length has none
Elements(v) == IF v.t = "array" THEN v.a ELSE <<>>

\* the for loop of paint_gui, from index i on (1-based); an exception of
\* paintCommand leaves the loop
RECURSIVE PaintLoop(_, _, _, _)
\* the loop with the condition _i < commands_1.length - 1
PaintLoopStopsEarly(canvas, commands, i, ops) ==
    IF i >= Len(commands) THEN Returned(ops)
    ELSE LET c == paintCommand(canvas, commands[i])
         IN  IF c.threw THEN Thrown(ops \o c.ops)
             ELSE PaintLoop(canvas, commands, i + 1, ops \o c.ops)

PaintLoop(canvas, commands, i, ops) ==
    IF i > Len(commands) THEN Returned(ops)
    ELSE LET c == paintCommand(canvas, commands[i])
         IN  IF c.threw THEN Thrown(ops \o c.ops)
             ELSE PaintLoop(canvas, commands, i + 1, ops \o c.ops)

\* lines 85-88 of paint_gui: the loop over the commands rust_gui returned
PaintCommands(canvas, input, commands) ==
    LET loop == IF commands.threw THEN Thrown(<<>>)
                ELSE PaintLoop(canvas, Elements(commands.value), 1, <<>>)
    IN  [threw |-> loop.threw, ops |-> loop.ops, input |-> input,
         seen |-> commands.seen, produced |-> commands.produced,
         commands |-> commands.value]

\* paint_gui with canvas.width as both components of screen_size
paint_guiSquare(canvas, mouse_pos, logic) ==
    LET input == Obj(<<Member("mouse_pos", mouse_pos),
                       Member("screen_size", Point(canvas.width, canvas.width))>>)
    IN  PaintCommands(canvas, input, rust_gui(input, logic))

\* function paint_gui(canvas, mouse_pos)
paint_gui(canvas, mouse_pos, logic) ==
    LET input == Obj(<<Member("mouse_pos", mouse_pos),
                       Member("screen_size", Point(canvas.width, canvas.height))>>)
    IN  PaintCommands(canvas, input, rust_gui(input, logic))

\* mouse_pos_from_event returning the client coordinates as they are
mouse_pos_from_eventClient(canvas, evt) == Point(evt.clientX, evt.clientY)

\* function mouse_pos_from_event(canvas, evt)
mouse_pos_from_event(canvas, evt) ==
    Point(evt.clientX - canvas.left, evt.clientY - canvas.top)

(***************************************************************************)
(* The page.                                                               *)
(*   wasm       the promise of wasm_bindgen("./emgui_bg.wasm")             *)
(*   canvas     the canvas element: its size and its bounding rectangle    *)
(*   listeners  the canvas's event listeners, in registration order        *)
(*   events     the pointer events the host has dispatched on the canvas,  *)
(*              in dispatch order                                          *)
(*   frames     one record per call of paint_gui, in call order: what      *)
(*              caused it, the canvas as it was, what went to and came     *)
(*              from the logic layer, whether an exception left the call   *)
(*   trace      every operation issued on the context, in issue order,     *)
(*              each with the index of the frame that issued it            *)
(*   console    what was logged                                            *)
(*   probe      one application of a function of the script to an input,   *)
(*              with its result once applied (FunctionSpec only)           *)
(***************************************************************************)
VARIABLES wasm, canvas, listeners, events, frames, trace, console, probe

vars == <<wasm, canvas, listeners, events, frames, trace, console, probe>>

\* the sizes and places the canvas takes, and where the pointer can be
CanvasLayouts ==
    { [width |-> 400, height |-> 300, left |-> 50, top |-> 50],
      [width |-> 800, height |-> 600, left |-> 138, top |-> 116] }

ClientPoints == { <<150, 150>> }

\* the part of the state the script's functions change
Page == [listeners |-> listeners, frames |-> frames, trace |-> trace,
         console |-> console]

Tagged(k, ops) == [i \in 1..Len(ops) |-> [frame |-> k, op |-> ops[i]]]

\* Record with the frame's operations put before those already issued
RecordAhead(page, cnv, cause, event, mouse_pos, run) ==
    [page |-> [page EXCEPT
                 !.frames = Append(@, [cause |-> cause, event |-> event,
                                       canvas |-> cnv, mouse_pos |-> mouse_pos,
                                       input |-> run.input, seen |-> run.seen,
                                       produced |-> run.produced,
                                       commands |-> run.commands,
                                       threw |-> run.threw]),
                 !.trace = Tagged(Len(page.frames) + 1, run.ops) \o @],
     threw |-> run.threw]

\* the call run of paint_gui is recorded as the page's next frame and its
\* operations reach the context
Record(page, cnv, cause, event, mouse_pos, run) ==
    [page |-> [page EXCEPT
                 !.frames = Append(@, [cause |-> cause, event |-> event,
                                       canvas |-> cnv, mouse_pos |-> mouse_pos,
                                       input |-> run.input, seen |-> run.seen,
                                       produced |-> run.produced,
                                       commands |-> run.commands,
                                       threw |-> run.threw]),
                 !.trace = @ \o Tagged(Len(page.frames) + 1, run.ops)],
     threw |-> run.threw]

\* a call paint_gui(canvas, mouse_pos) made by the page
Render(page, cnv, cause, event, mouse_pos, logic) ==
    Record(page, cnv, cause, event, mouse_pos, paint_gui(cnv, mouse_pos, logic))

\* canvas.addEventListener(type, listener, false)
addEventListener(page, type, listener) ==
    [page EXCEPT !.listeners = Append(@, [type |-> type, listener |-> listener])]

Log(page, level, text) ==
    [page EXCEPT !.console = Append(@, [level |-> level, text |-> text])]

\* initialize with the first frame painted before the listeners are added
ThenListen(r) ==
    IF r.threw THEN r
    ELSE [page |-> addEventListener(addEventListener(r.page, "mousemove", "paint"),
                                    "mousedown", "paint"),
          threw |-> FALSE]

initializePaintsFirst(page, cnv, logic) ==
    ThenListen(Render(page, cnv, "startup", 0, Point(0, 0), logic))

\* initialize without its last line
initializeListensOnly(page, cnv, logic) ==
    [page |-> addEventListener(addEventListener(page, "mousemove", "paint"),
                               "mousedown", "paint"),
     threw |-> FALSE]

\* function initialize()
initialize(page, cnv, logic) ==
    LET p1 == addEventListener(page, "mousemove", "paint")
        p2 == addEventListener(p1, "mousedown", "paint")
    IN  Render(p2, cnv, "startup", 0, Point(0, 0), logic)

\* function wasm_loaded()
wasm_loaded(page, cnv, logic) ==
    initialize(Log(page, "log", "wasm loaded"), cnv, logic)

\* the anonymous listeners of initialize: both do the same
PaintListener(page, cnv, evt, logic) ==
    LET mouse_pos == mouse_pos_from_event(cnv, evt)
    IN  Render(page, cnv, evt.type, evt.id, mouse_pos, logic)

\* the page after a listener completed as r: the host reports an exception
Reported(r) ==
    IF r.threw THEN Log(r.page, "error", "uncaught exception") ELSE r.page

\* the page after wasm_loaded completed as r: .catch(console.error)
Caught(r) ==
    IF r.threw THEN Log(r.page, "error", "rejected: exception") ELSE r.page

\* the host invokes the listeners registered for the event's type, in
\* registration order, from listener i on; an exception of a listener is
\* reported and the next listener still runs
RECURSIVE InvokeListeners(_, _, _, _, _, _)
InvokeListeners(page, registered, i, cnv, evt, logic) ==
    IF i > Len(registered) THEN page
    ELSE IF registered[i].type # evt.type
         THEN InvokeListeners(page, registered, i + 1, cnv, evt, logic)
    ELSE InvokeListeners(Reported(PaintListener(page, cnv, evt, logic)),
                         registered, i + 1, cnv, evt, logic)

SetPage(page) ==
    /\ listeners' = page.listeners
    /\ frames' = page.frames
    /\ trace' = page.trace
    /\ console' = page.console

NoProbe == [what |-> "none", result |-> <<>>]

Init ==
    /\ wasm = "loading"
    /\ canvas \in CanvasLayouts
    /\ listeners = <<>>
    /\ events = <<>>
    /\ frames = <<>>
    /\ trace = <<>>
    /\ console = <<>>
    /\ probe = NoProbe

\* the promise resolves: .then(wasm_loaded), and .catch(console.error) for
\* an exception that leaves wasm_loaded
WasmResolved ==
    /\ wasm = "loading"
    /\ wasm' = "ready"
    /\ \E logic \in LogicOutcomes :
          SetPage(Caught(wasm_loaded(Page, canvas, logic)))
    /\ UNCHANGED <<canvas, events, probe>>

\* the promise rejects and wasm_loaded is called all the same, as with
\* .then(wasm_loaded, wasm_loaded)
WasmRejectedInitializes ==
    /\ wasm = "loading"
    /\ wasm' = "failed"
    /\ \E logic \in LogicOutcomes :
          SetPage(Caught(wasm_loaded(Log(Page, "error", "rejected: load failed"),
                                     canvas, logic)))
    /\ UNCHANGED <<canvas, events, probe>>

\* the promise rejects: .catch(console.error)
WasmRejected ==
    /\ wasm = "loading"
    /\ wasm' = "failed"
    /\ SetPage(Log(Page, "error", "rejected: load failed"))
    /\ UNCHANGED <<canvas, events, probe>>

\* the host dispatches the pointer event evt on the canvas
Dispatch(evt) ==
    /\ events' = Append(events, evt)
    /\ \E logic \in LogicOutcomes :
          SetPage(InvokeListeners(Page, listeners, 1, canvas, evt, logic))

\* the pointer moves over the canvas
MouseMove ==
    /\ Len(events) < MaxEvents
    /\ \E c \in ClientPoints :
          Dispatch([type |-> "mousemove", id |-> Len(events) + 1,
                    clientX |-> c[1], clientY |-> c[2]])
    /\ UNCHANGED <<wasm, canvas, probe>>

\* a pointer button goes down over the canvas
MouseDown ==
    /\ Len(events) < MaxEvents
    /\ \E c \in ClientPoints :
          Dispatch([type |-> "mousedown", id |-> Len(events) + 1,
                    clientX |-> c[1], clientY |-> c[2]])
    /\ UNCHANGED <<wasm, canvas, probe>>

\* the page is resized or laid out anew: the canvas changes size and place
Relayout ==
    /\ canvas' \in CanvasLayouts \ {canvas}
    /\ UNCHANGED <<wasm, listeners, events, frames, trace, console, probe>>

Next ==
    \/ WasmResolved
    \/ WasmRejected
    \/ MouseMove
    \/ MouseDown
    \/ Relayout

Spec == Init /\ [][Next]_vars

(***************************************************************************)
(* The functions of the script on their own.  FunctionSpec draws one input *)
(* for paintCommand, mouse_pos_from_event or rust_gui and applies the      *)
(* function to it; the result is the one element of probe.result.          *)
(***************************************************************************)
Colors == {Lit("#111111"), Lit("#ff1111")}
Positions == {Point(100, 100), Point(0, -10)}
Sizes == {Point(200, 100), Point(40, 30), Point(1, 7)}
Radii == {0, 15, 20, 60}
Texts == {Lit("hello"), Str(<<"say ", Quote, "hi", Quote, " C:", Backslash>>), Str(<<>>)}

ProbeCommands ==
    {Obj(<<Member("kind", Lit("clear")), Member("fill_style", c)>>) : c \in Colors}
    \cup {Obj(<<Member("kind", Lit("line")), Member("from", a), Member("to", b),
                Member("line_width", Num(w)), Member("stroke_style", Lit("#ffffff"))>>) :
            a \in Positions, b \in Positions, w \in {1, 2}}
    \cup {Obj(<<Member("kind", Lit("circle")), Member("center", a),
                Member("radius", Num(r)), Member("fill_style", c)>>) :
            a \in Positions, r \in Radii \ {0}, c \in Colors}
    \cup {Obj(<<Member("kind", Lit("rounded_rect")), Member("fill_style", Lit("#ff1111")),
                Member("pos", a), Member("size", b), Member("corner_radius", Num(r))>>) :
            a \in Positions, b \in Sizes, r \in Radii}
    \cup {Obj(<<Member("kind", Lit("text")), Member("pos", a), Member("text", x),
                Member("font", Lit("14px Palatino")), Member("fill_style", Lit("#eeeeee")),
                Member("text_align", Lit(h))>>) :
            a \in Positions, x \in Texts, h \in {"left", "center", "right"}}
    \cup {Obj(<<Member("kind", Lit(k)), Member("fill_style", c)>>) :
            k \in {"triangle", "Clear", ""}, c \in Colors}
    \cup {Obj(<<Member("fill_style", c)>>) : c \in Colors}

ProbeEvents ==
    {[type |-> t, id |-> 1, clientX |-> x, clientY |-> y] :
        t \in {"mousemove", "mousedown"}, x \in {0, 62, 150}, y \in {0, 84, 150}}

ProbeInputs ==
    {Obj(<<Member("mouse_pos", m), Member("screen_size", z)>>) :
        m \in {Point(12, 34), Point(-138, -16), Point(0, 100)},
        z \in {Point(800, 600), Point(400, 300)}}

ProbeLogic ==
    {[fails |-> TRUE, commands |-> <<>>], [fails |-> FALSE, commands |-> <<>>]}
    \cup {[fails |-> FALSE, commands |-> Window(p)] : p \in 1..Len(Script)}

FunctionInit ==
    /\ wasm = "loading"
    /\ canvas \in CanvasLayouts
    /\ listeners = <<>>
    /\ events = <<>>
    /\ frames = <<>>
    /\ trace = <<>>
    /\ console = <<>>
    /\ probe \in {[what |-> "paintCommand", cmd |-> c, result |-> <<>>] :
                     c \in ProbeCommands}
           \cup {[what |-> "mouse_pos_from_event", evt |-> e, result |-> <<>>] :
                     e \in ProbeEvents}
           \cup {[what |-> "rust_gui", input |-> i, logic |-> l, result |-> <<>>] :
                     i \in ProbeInputs, l \in ProbeLogic}

Unapplied(what) == probe.what = what /\ probe.result = <<>>
Applied(what) == probe.what = what /\ probe.result # <<>>
Result == probe.result[1]

ApplyPaintCommand ==
    /\ Unapplied("paintCommand")
    /\ probe' = [probe EXCEPT !.result = <<paintCommand(canvas, probe.cmd)>>]
    /\ UNCHANGED <<wasm, canvas, listeners, events, frames, trace, console>>

ApplyMousePosFromEvent ==
    /\ Unapplied("mouse_pos_from_event")
    /\ probe' = [probe EXCEPT !.result = <<mouse_pos_from_event(canvas, probe.evt)>>]
    /\ UNCHANGED <<wasm, canvas, listeners, events, frames, trace, console>>

ApplyRustGui ==
    /\ Unapplied("rust_gui")
    /\ probe' = [probe EXCEPT !.result = <<rust_gui(probe.input, probe.logic)>>]
    /\ UNCHANGED <<wasm, canvas, listeners, events, frames, trace, console>>

FunctionNext ==
    \/ ApplyPaintCommand
    \/ ApplyMousePosFromEvent
    \/ ApplyRustGui

FunctionSpec == FunctionInit /\ [][FunctionNext]_vars

(***************************************************************************)
(* What the claims speak of.                                               *)
(***************************************************************************)
KindOf(cmd) == Get(cmd, "kind")
KnownKinds ==
    {Lit("clear"), Lit("line"), Lit("circle"), Lit("rounded_rect"), Lit("text")}
Unrecognized(cmd) == KindOf(cmd) \notin KnownKinds

\* the operations frame k issued, in the order the context received them
FrameEntries(k) == SelectSeq(trace, LAMBDA e : e.frame = k)
OpsOf(k) == [i \in 1..Len(FrameEntries(k)) |-> FrameEntries(k)[i].op]

\* the commands the logic layer produced for frame k (none when it failed)
CommandsOf(k) == Elements(frames[k].produced)

\* the operations of each command of cmds on its own, and their concatenation
PerCommand(cnv, cmds) == [i \in 1..Len(cmds) |-> paintCommand(cnv, cmds[i]).ops]

RECURSIVE Flatten(_)
Flatten(seqs) == IF seqs = <<>> THEN <<>> ELSE Head(seqs) \o Flatten(Tail(seqs))

Without(s, i) == SubSeq(s, 1, i - 1) \o SubSeq(s, i + 1, Len(s))

ClearRectAll(cnv) ==
    Call("clearRect", <<Num(0), Num(0), Num(cnv.width), Num(cnv.height)>>)

(***************************************************************************)
(* C1: interpreting a clear command issues one clear-rect from (0,0) to    *)
(* (surface width, surface height) and no other surface operation; the     *)
(* command's fill_style is never set on the surface.                       *)
(* The code assigns ctx.fillStyle before it clears: TLC refutes this.      *)
(***************************************************************************)
C1_ClearIssuesOnlyClearRect ==
    (Applied("paintCommand") /\ KindOf(probe.cmd) = Lit("clear")) =>
        Result = Returned(<<ClearRectAll(canvas)>>)

(***************************************************************************)
(* C2: a command whose kind is none of clear, line, circle, rounded_rect,  *)
(* text makes paintCommand issue no surface operation and raise nothing;   *)
(* inside a frame the commands after it are still interpreted: the frame's *)
(* operations are those of its command list with that command left out.    *)
(***************************************************************************)
C2_UnrecognizedKindIsNoOp ==
    \A k \in DOMAIN frames :
        \A i \in DOMAIN CommandsOf(k) :
            Unrecognized(CommandsOf(k)[i]) =>
                /\ paintCommand(frames[k].canvas, CommandsOf(k)[i]) = Returned(<<>>)
                /\ ~frames[k].threw
                /\ OpsOf(k) = Flatten(PerCommand(frames[k].canvas,
                                                 Without(CommandsOf(k), i)))

\* a frame whose list has an unrecognized command followed by commands that drew
C2_Witness ==
    \E k \in DOMAIN frames :
        \E i \in DOMAIN CommandsOf(k) :
            /\ Unrecognized(CommandsOf(k)[i])
            /\ i < Len(CommandsOf(k))
            /\ OpsOf(k) # <<>>

(***************************************************************************)
(* C3: within one frame every command the logic layer returned is          *)
(* interpreted exactly once and in sequence order: the operations the      *)
(* frame issued are the concatenation, in list order, of the operations of *)
(* each command, nothing skipped, repeated, reordered or added.            *)
(***************************************************************************)
C3_FrameIsConcatenation ==
    \A k \in DOMAIN frames :
        OpsOf(k) = Flatten(PerCommand(frames[k].canvas, CommandsOf(k)))

\* a rendered frame of several commands, the last of which drew
C3_Witness ==
    \E k \in DOMAIN frames :
        /\ ~frames[k].threw
        /\ Len(CommandsOf(k)) >= 2
        /\ paintCommand(frames[k].canvas, CommandsOf(k)[Len(CommandsOf(k))]).ops # <<>>
        /\ OpsOf(k) # <<>>

(***************************************************************************)
(* C4: when the logic-layer call fails during a frame, the failure leaves  *)
(* paint_gui (it is reported or caught, once), the frame issues no surface *)
(* operation, so the surface keeps what it showed, and the pointer         *)
(* listeners stay: the next pointer event still drives a new frame, also   *)
(* when the frame that failed was the startup frame.                       *)
(***************************************************************************)
ErrorsLogged(log) == Len(SelectSeq(log, LAMBDA m : m.level = "error"))
NewFrames == (DOMAIN frames') \ (DOMAIN frames)
SomeFrameFailed == \E k \in DOMAIN frames : frames[k].threw

C4_FailedFrameStep ==
    /\ \A k \in NewFrames :
          frames'[k].threw => \A i \in DOMAIN trace' : trace'[i].frame # k
    /\ (NewFrames # {} /\ \A k \in NewFrames : frames'[k].threw) => trace' = trace
    /\ wasm' # "failed" =>
          ErrorsLogged(console') - ErrorsLogged(console)
            = Cardinality({k \in NewFrames : frames'[k].threw})
    /\ (SomeFrameFailed /\ Len(events') = Len(events) + 1) =>
          Len(frames') = Len(frames) + 1

C4_LogicFailureAbortsFrameOnly == [][C4_FailedFrameStep]_vars

\* the startup frame failed, a pointer frame failed, and the next pointer
\* event was rendered all the same
C4_Witness ==
    /\ Len(frames) = 3
    /\ frames[1].cause = "startup" /\ frames[1].threw
    /\ frames[2].threw
    /\ ~frames[3].threw /\ OpsOf(3) # <<>>
    /\ OpsOf(1) = <<>> /\ OpsOf(2) = <<>>

(***************************************************************************)
(* C5: frames are rendered in the order their events were dispatched and   *)
(* never interleave: in the trace of all surface operations the operations *)
(* of one frame are contiguous, and all operations of a frame precede all  *)
(* operations of every frame triggered by a later event.                   *)
(***************************************************************************)
PositionsOf(k) == {i \in DOMAIN trace : trace[i].frame = k}
FirstPos(k) == CHOOSE i \in PositionsOf(k) : \A j \in PositionsOf(k) : i <= j
LastPos(k) == CHOOSE i \in PositionsOf(k) : \A j \in PositionsOf(k) : j <= i

Becomes == wasm = "loading" /\ wasm' = "ready"
Heard == wasm = "ready" /\ Len(events') = Len(events) + 1
Newest == frames'[Len(frames')]

C6_FrameStep ==
    /\ SubSeq(frames', 1, Len(frames)) = frames
    /\ Becomes =>
          /\ Len(frames') = Len(frames) + 1
          /\ Newest.cause = "startup"
          /\ Newest.mouse_pos = Point(0, 0)
    /\ Heard =>
          /\ Len(frames') = Len(frames) + 1
          /\ Newest.cause = events'[Len(events')].type
          /\ Newest.cause \in {"mousemove", "mousedown"}
          /\ Newest.event = Len(events')
    /\ (~Becomes /\ ~Heard) => frames' = frames
    /\ Cardinality({k \in DOMAIN frames' : frames'[k].cause = "startup"})
         = IF wasm' = "ready" THEN 1 ELSE 0

C6_OneFramePerCause == [][C6_FrameStep]_vars

\* the startup frame, then one frame for a pointer-move and one for a pointer-down
C6_Witness ==
    /\ Len(frames) = 3 /\ Len(events) = 2
    /\ frames[1].cause = "startup" /\ frames[1].mouse_pos = Point(0, 0)
    /\ {frames[2].cause, frames[3].cause} = {"mousemove", "mousedown"}

(***************************************************************************)
(* C7: for line, circle and text commands paintCommand issues exactly      *)
(* these operations in this order and nothing else:                        *)
(*   line:   begin path, set stroke width, set stroke color, move-to from, *)
(*           line-to to, stroke;                                           *)
(*   circle: set fill color, begin path, arc(center, radius, 0, 2*pi, not  *)
(*           counter-clockwise), fill;                                     *)
(*   text:   set font, set fill color, set text alignment,                 *)
(*           fill-text(text, pos.x, pos.y).                                *)
(***************************************************************************)
XOf(cmd, field) == Get(Get(cmd, field), "x")
YOf(cmd, field) == Get(Get(cmd, field), "y")

ExpectedLine(c) ==
    <<Call("beginPath", <<>>),
      SetProp("lineWidth", Get(c, "line_width")),
      SetProp("strokeStyle", Get(c, "stroke_style")),
      Call("moveTo", <<XOf(c, "from"), YOf(c, "from")>>),
      Call("lineTo", <<XOf(c, "to"), YOf(c, "to")>>),
      Call("stroke", <<>>)>>

ExpectedCircle(c) ==
    <<SetProp("fillStyle", Get(c, "fill_style")),
      Call("beginPath", <<>>),
      Call("arc", <<XOf(c, "center"), YOf(c, "center"), Get(c, "radius"),
                    Num(0), TwoPi, False>>),
      Call("fill", <<>>)>>

ExpectedText(c) ==
    <<SetProp("font", Get(c, "font")),
      SetProp("fillStyle", Get(c, "fill_style")),
      SetProp("textAlign", Get(c, "text_align")),
      Call("fillText", <<Get(c, "text"), XOf(c, "pos"), YOf(c, "pos")>>)>>

C7_LineCircleTextOperations ==
    Applied("paintCommand") =>
        /\ KindOf(probe.cmd) = Lit("line") =>
              Result = Returned(ExpectedLine(probe.cmd))
        /\ KindOf(probe.cmd) = Lit("circle") =>
              Result = Returned(ExpectedCircle(probe.cmd))
        /\ KindOf(probe.cmd) = Lit("text") =>
              Result = Returned(ExpectedText(probe.cmd))

\* a line command from one point to another has been interpreted
C7_Witness ==
    /\ Applied("paintCommand")
    /\ KindOf(probe.cmd) = Lit("line")
    /\ Get(probe.cmd, "from") # Get(probe.cmd, "to")
    /\ Len(Result.ops) = 6

(***************************************************************************)
(* C8: for a rounded_rect command paintCommand sets the fill color, begins *)
(* a path at (x+r, y), emits 8 segments, line and quadratic curve in turn, *)
(* clockwise (top edge, top-right corner, right edge, bottom-right corner, *)
(* bottom edge, bottom-left corner, left edge, top-left corner), closes    *)
(* the path and fills.  Each curve's control point is the rectangle's      *)
(* corner, its start and its end lie at distance r from that corner along  *)
(* the edge that arrives and the edge that leaves, and the last curve ends *)
(* at the starting point (x+r, y).                                         *)
(***************************************************************************)
\* clockwise from the top right: the corners of the rectangle at (x, y) of
\* size w by h, and the directions of the edge into and out of each corner
Corners(x, y, w, h) == << <<x + w, y>>, <<x + w, y + h>>, <<x, y + h>>, <<x, y>> >>
Into == << <<1, 0>>, <<0, 1>>, <<-1, 0>>, <<0, -1>> >>
Outof == << <<0, 1>>, <<-1, 0>>, <<0, -1>>, <<1, 0>> >>
Along(p, d, r) == <<p[1] + r * d[1], p[2] + r * d[2]>>
\* the point of a call given by its arguments i and i + 1
PointArg(op, i) == <<op.args[i].n, op.args[i + 1].n>>

RoundedPath(ops, fill, x, y, w, h, r) ==
    /\ Len(ops) = 13
    /\ ops[1] = SetProp("fillStyle", fill)
    /\ ops[2] = Call("beginPath", <<>>)
    /\ ops[3].op = "moveTo" /\ Len(ops[3].args) = 2
    /\ PointArg(ops[3], 1) = <<x + r, y>>
    /\ \A n \in 1..4 :
          /\ ops[2 + 2 * n].op = "lineTo" /\ Len(ops[2 + 2 * n].args) = 2
          /\ PointArg(ops[2 + 2 * n], 1) = Along(Corners(x, y, w, h)[n], Into[n], 0 - r)
          /\ ops[3 + 2 * n].op = "quadraticCurveTo" /\ Len(ops[3 + 2 * n].args) = 4
          /\ PointArg(ops[3 + 2 * n], 1) = Corners(x, y, w, h)[n]
          /\ PointArg(ops[3 + 2 * n], 3) = Along(Corners(x, y, w, h)[n], Outof[n], r)
    /\ PointArg(ops[11], 3) = PointArg(ops[3], 1)
    /\ ops[12] = Call("closePath", <<>>)
    /\ ops[13] = Call("fill", <<>>)

C8_RoundedRectPath ==
    (Applied("paintCommand") /\ KindOf(probe.cmd) = Lit("rounded_rect")) =>
        /\ ~Result.threw
        /\ RoundedPath(Result.ops, Get(probe.cmd, "fill_style"),
                       XOf(probe.cmd, "pos").n, YOf(probe.cmd, "pos").n,
                       XOf(probe.cmd, "size").n, YOf(probe.cmd, "size").n,
                       Get(probe.cmd, "corner_radius").n)

\* the rectangle at (100, 100) of 200 by 100 with corners of radius 20
C8_Witness ==
    /\ Applied("paintCommand")
    /\ KindOf(probe.cmd) = Lit("rounded_rect")
    /\ Get(probe.cmd, "pos") = Point(100, 100)
    /\ Get(probe.cmd, "size") = Point(200, 100)
    /\ Get(probe.cmd, "corner_radius") = Num(20)
    /\ Len(Result.ops) = 13

(***************************************************************************)
(* C9: mouse_pos_from_event returns {x: clientX - bounds.left,             *)
(* y: clientY - bounds.top} for the bounds the canvas has when the event   *)
(* is handled, and changes nothing: client (150,150) over a canvas whose   *)
(* bounding box starts at (50,50) gives {x: 100, y: 100}.                  *)
(***************************************************************************)
C9_PointerStep ==
    \A k \in NewFrames :
        frames'[k].cause # "startup" =>
            /\ frames'[k].mouse_pos =
                 Point(events'[frames'[k].event].clientX - canvas.left,
                       events'[frames'[k].event].clientY - canvas.top)
            /\ (/\ events'[frames'[k].event].clientX = 150
                /\ events'[frames'[k].event].clientY = 150
                /\ canvas.left = 50 /\ canvas.top = 50)
                  => frames'[k].mouse_pos = Point(100, 100)
            /\ canvas' = canvas

C9_LocalPoint == [][C9_PointerStep]_vars

\* two pointer frames with the canvas in different places, the later one the
\* example of the claim
C9_Witness ==
    \E j, k \in DOMAIN frames :
        /\ j < k
        /\ frames[j].cause # "startup"
        /\ frames[j].canvas.left # 50
        /\ frames[k].cause # "startup"
        /\ frames[k].canvas.left = 50 /\ frames[k].canvas.top = 50
        /\ events[frames[k].event].clientX = 150
        /\ frames[k].mouse_pos = Point(100, 100)

(***************************************************************************)
(* C10: the logic-layer boundary loses nothing: the Input Snapshot the     *)
(* logic layer deserializes is field-equal to the one that was serialized  *)
(* (so for {mouse_pos: {x: 12, y: 34}, screen_size: {x: 800, y: 600}}),    *)
(* and the command sequence the interpreter gets after deserialization is  *)
(* field-for-field equal, in the same order and of the same length, to the *)
(* sequence the logic layer produced.                                      *)
(***************************************************************************)
Keys(o) == {o.m[i][1] : i \in DOMAIN o.m}

RECURSIVE FieldEqual(_, _)
FieldEqual(a, b) ==
    /\ a.t = b.t
    /\ CASE a.t = "number" -> a = b
         [] a.t = "string" -> a.s = b.s
         [] a.t = "array" ->
              /\ Len(a.a) = Len(b.a)
              /\ \A i \in DOMAIN a.a : FieldEqual(a.a[i], b.a[i])
         [] a.t = "object" ->
              /\ Len(a.m) = Len(b.m)
              /\ Keys(a) = Keys(b)
              /\ \A key \in Keys(a) : FieldEqual(GetKey(a, key), GetKey(b, key))
         [] OTHER -> a = b

ExampleSnapshot ==
    Obj(<<Member("mouse_pos", Point(12, 34)), Member("screen_size", Point(800, 600))>>)

C10_BoundaryLosesNothing ==
    Applied("rust_gui") =>
        /\ FieldEqual(Result.seen, probe.input)
        /\ probe.input = ExampleSnapshot =>
              /\ Get(Get(Result.seen, "mouse_pos"), "x") = Num(12)
              /\ Get(Get(Result.seen, "mouse_pos"), "y") = Num(34)
              /\ Get(Get(Result.seen, "screen_size"), "x") = Num(800)
              /\ Get(Get(Result.seen, "screen_size"), "y") = Num(600)
        /\ ~probe.logic.fails =>
              /\ ~Result.threw
              /\ Result.value.t = "array"
              /\ Len(Result.value.a) = Len(probe.logic.commands)
              /\ \A i \in DOMAIN probe.logic.commands :
                    FieldEqual(Result.value.a[i], probe.logic.commands[i])

\* the example snapshot went out and a list with a text command, whose string
\* holds quotes and a backslash, came back
C10_Witness ==
    /\ Applied("rust_gui")
    /\ probe.input = ExampleSnapshot
    /\ ~Result.threw
    /\ \E i \in DOMAIN Result.value.a :
          /\ KindOf(Result.value.a[i]) = Lit("text")
          /\ \E j \in DOMAIN Get(Result.value.a[i], "text").s :
                Get(Result.value.a[i], "text").s[j] = Quote

(***************************************************************************)
(* C11: for a rounded_rect command with size.x > 0, size.y > 0 and         *)
(* 0 <= corner_radius <= min(size.x, size.y) / 2, every coordinate passed  *)
(* to move-to, line-to and quadratic-curve-to, end points and control      *)
(* points alike, lies within [pos.x, pos.x + size.x] x                     *)
(* [pos.y, pos.y + size.y]; pos (100, 100), size (200, 100) and radius 20  *)
(* give a path within (100, 100) - (300, 200).                             *)
(***************************************************************************)
PathOps == {"moveTo", "lineTo", "quadraticCurveTo"}

\* the points among the arguments of the path operations of ops
PathPoints(ops) ==
    UNION {{PointArg(ops[i], 2 * j - 1) : j \in 1..(Len(ops[i].args) \div 2)} :
              i \in {k \in DOMAIN ops : ops[k].op \in PathOps}}

Within(p, x, y, w, h) ==
    /\ x <= p[1] /\ p[1] <= x + w
    /\ y <= p[2] /\ p[2] <= y + h

Min(a, b) == IF a <= b THEN a ELSE b

\* the contract of the schema on a rounded_rect of size w by h and radius r
WellFormedRect(w, h, r) ==
    /\ w > 0 /\ h > 0
    /\ 0 <= r /\ 2 * r <= Min(w, h)

C11_RoundedRectStaysWithin ==
    (/\ Applied("paintCommand")
     /\ KindOf(probe.cmd) = Lit("rounded_rect")
     /\ WellFormedRect(XOf(probe.cmd, "size").n, YOf(probe.cmd, "size").n,
                       Get(probe.cmd, "corner_radius").n)) =>
        /\ \E i \in DOMAIN Result.ops : Result.ops[i].op \in PathOps
        /\ \A p \in PathPoints(Result.ops) :
              Within(p, XOf(probe.cmd, "pos").n, YOf(probe.cmd, "pos").n,
                     XOf(probe.cmd, "size").n, YOf(probe.cmd, "size").n)
        /\ (/\ Get(probe.cmd, "pos") = Point(100, 100)
            /\ Get(probe.cmd, "size") = Point(200, 100)
            /\ Get(probe.cmd, "corner_radius") = Num(20)) =>
              \A p \in PathPoints(Result.ops) : Within(p, 100, 100, 200, 100)

\* a well-formed rectangle whose corners take all of its height, and whose
\* path touches both sides of the rectangle
C11_Witness ==
    /\ Applied("paintCommand")
    /\ KindOf(probe.cmd) = Lit("rounded_rect")
    /\ Get(probe.cmd, "size") = Point(40, 30)
    /\ Get(probe.cmd, "corner_radius") = Num(15)
    /\ \E p, q \in PathPoints(Result.ops) :
          /\ p[1] = XOf(probe.cmd, "pos").n
          /\ q[1] = XOf(probe.cmd, "pos").n + 40

(***************************************************************************)
(* C12: with corner_radius = 0 the path of a rounded_rect is an ordinary   *)
(* rectangle: each of the four quadratic curves starts, has its control    *)
(* point and ends at one and the same corner of the rectangle, and the     *)
(* four lines run corner to corner,                                        *)
(* (x, y) -> (x+w, y) -> (x+w, y+h) -> (x, y+h) -> (x, y).                 *)
(***************************************************************************)
\* where the pen is once ops[i] has been issued
PenAfter(ops, i) ==
    IF ops[i].op = "quadraticCurveTo" THEN PointArg(ops[i], 3) ELSE PointArg(ops[i], 1)

\* the path operations of ops, in order, as indices into ops
RECURSIVE PathIndices(_, _)
PathIndices(ops, i) ==
    IF i > Len(ops) THEN <<>>
    ELSE IF ops[i].op \in PathOps THEN <<i>> \o PathIndices(ops, i + 1)
    ELSE PathIndices(ops, i + 1)

\* ops draws the rectangle at (x, y) of w by h, path being PathIndices(ops, 1)
PlainRectangle(ops, path, x, y, w, h) ==
    /\ Len(path) = 9
    /\ ops[path[1]].op = "moveTo"
    /\ PenAfter(ops, path[1]) = <<x, y>>
    /\ \A n \in 1..4 :
          /\ ops[path[2 * n]].op = "lineTo"
          \* the line starts at the corner before and ends at corner n
          /\ PenAfter(ops, path[2 * n - 1]) = Corners(x, y, w, h)[IF n = 1 THEN 4 ELSE n - 1]
          /\ PenAfter(ops, path[2 * n]) = Corners(x, y, w, h)[n]
          \* the curve stays at corner n
          /\ ops[path[2 * n + 1]].op = "quadraticCurveTo"
          /\ PointArg(ops[path[2 * n + 1]], 1) = Corners(x, y, w, h)[n]
          /\ PointArg(ops[path[2 * n + 1]], 3) = Corners(x, y, w, h)[n]

C12_ZeroRadiusIsRectangle ==
    (/\ Applied("paintCommand")
     /\ KindOf(probe.cmd) = Lit("rounded_rect")
     /\ Get(probe.cmd, "corner_radius") = Num(0)) =>
        PlainRectangle(Result.ops, PathIndices(Result.ops, 1),
                       XOf(probe.cmd, "pos").n, YOf(probe.cmd, "pos").n,
                       XOf(probe.cmd, "size").n, YOf(probe.cmd, "size").n)

\* a rectangle of 200 by 100 with corner_radius 0 has been drawn
C12_Witness ==
    /\ Applied("paintCommand")
    /\ KindOf(probe.cmd) = Lit("rounded_rect")
    /\ Get(probe.cmd, "corner_radius") = Num(0)
    /\ Get(probe.cmd, "size") = Point(200, 100)
    /\ Len(PathIndices(Result.ops, 1)) = 9

(***************************************************************************)
(* C13: every frame passes the logic layer an Input Snapshot built for     *)
(* that frame: its mouse_pos is the local point of the event that caused   *)
(* the frame, or {0, 0} for the startup frame, and its screen_size is the  *)
(* width and height the canvas has when the frame starts.  Nothing of an   *)
(* earlier frame's snapshot is used again.                                 *)
(***************************************************************************)
\* the snapshot of a frame caused by event (0 at startup) on the canvas cnv
SnapshotFor(cnv, cause, event) ==
    Obj(<<Member("mouse_pos",
                 IF cause = "startup" THEN Point(0, 0)
                 ELSE Point(event.clientX - cnv.left, event.clientY - cnv.top)),
          Member("screen_size", Point(cnv.width, cnv.height))>>)

EventOf(frame, dispatched) ==
    IF frame.cause = "startup" THEN 0 ELSE dispatched[frame.event]

C13_SnapshotStep ==
    \A k \in NewFrames :
        /\ frames'[k].input = SnapshotFor(canvas, frames'[k].cause,
                                          EventOf(frames'[k], events'))
        /\ FieldEqual(frames'[k].seen, frames'[k].input)
        /\ frames'[k].cause = "startup" <=> k = 1

C13_FreshSnapshotPerFrame == [][C13_SnapshotStep]_vars

\* two frames one after the other whose snapshots differ in mouse_pos and in
\* screen_size, the canvas having changed in between
C13_Witness ==
    \E k \in DOMAIN frames :
        /\ k > 1
        /\ frames[k - 1].cause # "startup"
        /\ Get(frames[k].input, "mouse_pos") # Get(frames[k - 1].input, "mouse_pos")
        /\ Get(frames[k].input, "screen_size") # Get(frames[k - 1].input, "screen_size")
        /\ frames[k].seen = frames[k].input

(***************************************************************************)
(* C14: nothing is rendered and no pointer listener is registered before   *)
(* the logic-layer module has finished loading; initialize runs at most    *)
(* once and only after a successful load; if loading fails, no listener is *)
(* registered and no canvas operation is ever issued, whatever pointer     *)
(* events follow: the failure is logged and that is all.                   *)
(***************************************************************************)
Count(seq, Test(_)) == Cardinality({i \in DOMAIN seq : Test(seq[i])})

IsStartup(frame) == frame.cause = "startup"
IsLoadedNote(entry) == entry.level = "log" /\ entry.text = "wasm loaded"
IsMoveListener(l) == l.type = "mousemove"
IsDownListener(l) == l.type = "mousedown"

Untouched == listeners = <<>> /\ frames = <<>> /\ trace = <<>>

C14_NothingBeforeLoad ==
    /\ wasm = "loading" => Untouched /\ console = <<>>
    /\ wasm = "failed" =>
          /\ Untouched
          /\ Len(console) = 1 /\ console[1].level = "error"
    \* initialize ran once: its listeners, its frame and the note before it
    /\ wasm = "ready" =>
          /\ Count(console, IsLoadedNote) = 1
          /\ Count(listeners, IsMoveListener) = 1
          /\ Count(listeners, IsDownListener) = 1
          /\ Count(frames, IsStartup) = 1
          /\ IsStartup(frames[1])
    /\ Count(frames, IsStartup) <= 1
    /\ Count(console, IsLoadedNote) <= 1

\* loading failed, pointer events were dispatched, and nothing was registered
\* or drawn
C14_Witness ==
    /\ wasm = "failed"
    /\ Len(events) = MaxEvents
    /\ Untouched
    /\ Len(console) = 1

====
